---- MODULE Spec2Model ----
(***************************************************************************)
(* Model of the analysis-record store (remote document collection and      *)
(* local serialized array) and of the field back-fill performed by the     *)
(* five AI flows of the MedicalChatBot repository, and of the main page    *)
(* with its session holder and analysis forms.                             *)
(*                                                                         *)
(*   Spec      the record store: save and list in both backends            *)
(*   FlowSpec  the flows: model response -> normalized result              *)
(*   PageSpec  the main page: login, logout, reload, one analysis form     *)
(*   DashSpec  the dashboard page: list calls and the rendering of records *)
(***************************************************************************)
EXTENDS Integers, Sequences, FiniteSets, TLC

VARIABLES
    store,         \* the backend the service module is built with
    now,           \* the wall clock, in milliseconds (Date.now())
    docs,          \* remote backend: the documents of collection 'analyses'
    localStorage,  \* local backend: storage key -> stored text
    calls,         \* the save calls: arguments, position and outcome
    flowRun,       \* one run of a flow: response of the model and result
    page,          \* the main page: component state of Home and the URL
    form,          \* the analysis form in use: component state and its calls
    dash           \* the dashboard page: component state and its list calls

vars == <<store, now, docs, localStorage, calls, flowRun, page, form, dash>>

storeVars == <<store, now, docs, localStorage, calls>>

uiVars == <<page, form, dash>>

(***************************************************************************)
(* Bounds                                                                  *)
(***************************************************************************)
MaxCalls == 2        \* save calls issued in one behaviour

MaxClock == 1000     \* the clock stops ticking here

MaxListLen == 1      \* longest list a model response carries

MaxLists == 2        \* list calls of the dashboard in flight together

(***************************************************************************)
(* JavaScript values of the result payloads.  A value is a tagged record;  *)
(* a field the response omits holds Undefined (reading an absent property  *)
(* yields undefined).                                                      *)
(***************************************************************************)
Undefined == [k |-> "undef", v |-> <<>>]

Null == [k |-> "null", v |-> <<>>]

Str(s) == [k |-> "str", v |-> <<s>>]

Arr(xs) == [k |-> "arr", v |-> xs]

\* !x
Falsy(x) == x.k \in {"undef", "null"} \/ x = Str("")

\* x == null || x === undefined
Nullish(x) == x.k \in {"undef", "null"}

\* x ?? d
Coalesce(x, d) == IF Nullish(x) THEN d ELSE x

\* x || d
OrElse(x, d) == IF Falsy(x) THEN d ELSE x

IsArray(x) == x.k = "arr"

\* x.length of an array
Length(x) == Len(x.v)

GeneralPractitioner == Arr(<<"General Practitioner">>)

MentalHealthFallback == Arr(<<"General Practitioner", "Mental Health Professional">>)

ConsultDietitian == Str("Consult a registered dietitian or healthcare provider for personalized advice.")

(***************************************************************************)
(* The flows: the code that follows the null check of each flow, applied   *)
(* to the non-null output o of the prompt.                                 *)
(***************************************************************************)
analyzeImageFlow(o) ==
    LET o1 == IF Falsy(o.assessment) \/ Falsy(o.recommendations)
                 \/ ~IsArray(o.doctorRecommendations)
              THEN [o EXCEPT
                      !.assessment = OrElse(@, Str("Assessment unavailable.")),
                      !.recommendations = OrElse(@, Str("Consult a healthcare professional.")),
                      !.doctorRecommendations =
                          IF IsArray(@) /\ Length(@) > 0 THEN @ ELSE GeneralPractitioner]
              ELSE o
        o2 == IF Length(o1.doctorRecommendations) = 0
              THEN [o1 EXCEPT !.doctorRecommendations = GeneralPractitioner]
              ELSE o1
    IN  [o2 EXCEPT !.indianMedicalRecommendations = Coalesce(@, Arr(<<>>))]

voiceDiagnosisFlow(o) ==
    LET o1 == IF ~IsArray(o.potentialConditions) \/ ~IsArray(o.clarifyingQuestions)
                 \/ ~IsArray(o.doctorRecommendations)
              THEN [o EXCEPT
                      !.potentialConditions = IF IsArray(@) THEN @ ELSE Arr(<<>>),
                      !.clarifyingQuestions =
                          IF IsArray(@) THEN @ ELSE Arr(<<"Could not generate questions.">>),
                      !.doctorRecommendations =
                          IF IsArray(@) /\ Length(@) > 0 THEN @ ELSE GeneralPractitioner]
              ELSE o
        o2 == IF Length(o1.doctorRecommendations) = 0
              THEN [o1 EXCEPT !.doctorRecommendations = GeneralPractitioner]
              ELSE o1
    IN  [o2 EXCEPT !.indianMedicalRecommendations = Coalesce(@, Arr(<<>>))]

\* the result voiceDiagnosisFlow returns without calling the model when the
\* input carries neither audio nor text
voiceDiagnosisNoSymptoms ==
    [potentialConditions |-> Arr(<<>>),
     clarifyingQuestions |-> Arr(<<"No symptoms were provided to analyze.">>),
     doctorRecommendations |-> GeneralPractitioner,
     indianMedicalRecommendations |-> Arr(<<>>)]

\* assessMentalHealthFlow with "General Practitioner" put in front of the
\* resource list on every call instead of back-filling an empty list
assessMentalHealthFlowPrepend(o) ==
    LET o1 == IF Falsy(o.assessment) \/ Falsy(o.recommendations)
                 \/ Falsy(o.resourceSuggestions)
              THEN [o EXCEPT
                      !.assessment =
                          Coalesce(@, Str("Could not generate a preliminary assessment.")),
                      !.recommendations =
                          Coalesce(@, Arr(<<"Consider practicing self-care and reaching out for support.">>)),
                      !.resourceSuggestions =
                          IF ~Falsy(@) /\ Length(@) > 0 THEN @ ELSE Arr(<<"Mental Health Professional">>),
                      !.crisisWarning = @]
              ELSE o
        o2 == [o1 EXCEPT !.resourceSuggestions = Arr(<<"General Practitioner">> \o @.v)]
    IN  [o2 EXCEPT !.indianMedicalRecommendations = Coalesce(@, Arr(<<>>))]

assessMentalHealthFlow(o) ==
    LET o1 == IF Falsy(o.assessment) \/ Falsy(o.recommendations)
                 \/ Falsy(o.resourceSuggestions)
              THEN [o EXCEPT
                      !.assessment =
                          Coalesce(@, Str("Could not generate a preliminary assessment.")),
                      !.recommendations =
                          Coalesce(@, Arr(<<"Consider practicing self-care and reaching out for support.">>)),
                      !.resourceSuggestions =
                          IF ~Falsy(@) /\ Length(@) > 0 THEN @ ELSE MentalHealthFallback,
                      !.crisisWarning = @]
              ELSE o
        o2 == IF Length(o1.resourceSuggestions) = 0
              THEN [o1 EXCEPT !.resourceSuggestions = MentalHealthFallback]
              ELSE o1
    IN  [o2 EXCEPT !.indianMedicalRecommendations = Coalesce(@, Arr(<<>>))]

\* checkSymptomsFlow without the check for an empty doctorRecommendations
\* that follows the back-fill block
checkSymptomsFlowNoEmptyCheck(o) ==
    LET o1 == IF Falsy(o.potentialConditions) \/ Falsy(o.urgency)
                 \/ Falsy(o.urgencyReasoning) \/ Falsy(o.suggestedNextSteps)
                 \/ Falsy(o.doctorRecommendations)
              THEN [o EXCEPT
                      !.potentialConditions = Coalesce(@, Arr(<<>>)),
                      !.urgency = Coalesce(@, Str("Low")),
                      !.urgencyReasoning =
                          Coalesce(@, Str("Could not determine urgency reasoning.")),
                      !.suggestedNextSteps =
                          Coalesce(@, Arr(<<"Consult a healthcare professional.">>)),
                      !.doctorRecommendations =
                          IF ~Falsy(@) /\ Length(@) > 0 THEN @ ELSE GeneralPractitioner]
              ELSE o
    IN  [o1 EXCEPT !.indianMedicalRecommendations = Coalesce(@, Arr(<<>>))]

\* checkSymptomsFlow with || in place of ?? in the back-fill block
checkSymptomsFlowOrDefaults(o) ==
    LET o1 == IF Falsy(o.potentialConditions) \/ Falsy(o.urgency)
                 \/ Falsy(o.urgencyReasoning) \/ Falsy(o.suggestedNextSteps)
                 \/ Falsy(o.doctorRecommendations)
              THEN [o EXCEPT
                      !.potentialConditions = OrElse(@, Arr(<<>>)),
                      !.urgency = OrElse(@, Str("Low")),
                      !.urgencyReasoning =
                          OrElse(@, Str("Could not determine urgency reasoning.")),
                      !.suggestedNextSteps =
                          OrElse(@, Arr(<<"Consult a healthcare professional.">>)),
                      !.doctorRecommendations =
                          IF ~Falsy(@) /\ Length(@) > 0 THEN @ ELSE GeneralPractitioner]
              ELSE o
        o2 == IF Length(o1.doctorRecommendations) = 0
              THEN [o1 EXCEPT !.doctorRecommendations = GeneralPractitioner]
              ELSE o1
    IN  [o2 EXCEPT !.indianMedicalRecommendations = Coalesce(@, Arr(<<>>))]

checkSymptomsFlow(o) ==
    LET o1 == IF Falsy(o.potentialConditions) \/ Falsy(o.urgency)
                 \/ Falsy(o.urgencyReasoning) \/ Falsy(o.suggestedNextSteps)
                 \/ Falsy(o.doctorRecommendations)
              THEN [o EXCEPT
                      !.potentialConditions = Coalesce(@, Arr(<<>>)),
                      !.urgency = Coalesce(@, Str("Low")),
                      !.urgencyReasoning =
                          Coalesce(@, Str("Could not determine urgency reasoning.")),
                      !.suggestedNextSteps =
                          Coalesce(@, Arr(<<"Consult a healthcare professional.">>)),
                      !.doctorRecommendations =
                          IF ~Falsy(@) /\ Length(@) > 0 THEN @ ELSE GeneralPractitioner]
              ELSE o
        o2 == IF Length(o1.doctorRecommendations) = 0
              THEN [o1 EXCEPT !.doctorRecommendations = GeneralPractitioner]
              ELSE o1
    IN  [o2 EXCEPT !.indianMedicalRecommendations = Coalesce(@, Arr(<<>>))]

\* analyzeDietFlow without the fallback for indianMedicalRecommendations
analyzeDietFlowNoFallback(o) ==
    LET o1 == IF Falsy(o.nutritionalBreakdown) \/ Falsy(o.healthObservations)
                 \/ Falsy(o.improvementSuggestions) \/ Falsy(o.professionalRecommendation)
              THEN [o EXCEPT
                      !.nutritionalBreakdown =
                          Coalesce(@, Str("Could not estimate nutritional breakdown.")),
                      !.healthObservations = Coalesce(@, Arr(<<>>)),
                      !.improvementSuggestions = Coalesce(@, Arr(<<>>)),
                      !.professionalRecommendation = Coalesce(@, ConsultDietitian)]
              ELSE o
    IN  IF Falsy(o1.professionalRecommendation)
        THEN [o1 EXCEPT !.professionalRecommendation = ConsultDietitian]
        ELSE o1

analyzeDietFlow(o) ==
    LET o1 == IF Falsy(o.nutritionalBreakdown) \/ Falsy(o.healthObservations)
                 \/ Falsy(o.improvementSuggestions) \/ Falsy(o.professionalRecommendation)
              THEN [o EXCEPT
                      !.nutritionalBreakdown =
                          Coalesce(@, Str("Could not estimate nutritional breakdown.")),
                      !.healthObservations = Coalesce(@, Arr(<<>>)),
                      !.improvementSuggestions = Coalesce(@, Arr(<<>>)),
                      !.professionalRecommendation = Coalesce(@, ConsultDietitian)]
              ELSE o
        o2 == IF Falsy(o1.professionalRecommendation)
              THEN [o1 EXCEPT !.professionalRecommendation = ConsultDietitian]
              ELSE o1
    IN  [o2 EXCEPT !.indianMedicalRecommendations = Coalesce(@, Arr(<<>>))]

FlowNames == {"analyzeImage", "voiceDiagnosis", "assessMentalHealth",
              "checkSymptoms", "analyzeDiet"}

\* the normalization of flow f
Normalize(f, o) ==
    CASE f = "analyzeImage"       -> analyzeImageFlow(o)
      [] f = "voiceDiagnosis"     -> voiceDiagnosisFlow(o)
      [] f = "assessMentalHealth" -> assessMentalHealthFlow(o)
      [] f = "checkSymptoms"      -> checkSymptomsFlow(o)
      [] f = "analyzeDiet"        -> analyzeDietFlow(o)

(***************************************************************************)
(* Strings that the store inspects are sequences of characters.            *)
(***************************************************************************)
RECURSIVE TrimStart(_)
TrimStart(s) == IF s # <<>> /\ Head(s) = " " THEN TrimStart(Tail(s)) ELSE s

RECURSIVE TrimEnd(_)
TrimEnd(s) ==
    IF s # <<>> /\ s[Len(s)] = " " THEN TrimEnd(SubSeq(s, 1, Len(s) - 1)) ELSE s

\* String.prototype.trim
Trim(s) == TrimEnd(TrimStart(s))

\* !userId || !userId.trim()
UserIdMissing(userId) == userId = <<>> \/ Trim(userId) = <<>>

\* the user identifiers save and list are called with
UserIds == {<<>>, <<" ">>, <<"a">>, <<"a", " ">>}

AnalysisTypes == {"imageAnalyses", "voiceDiagnoses", "symptomChecks",
                  "mentalHealthAssessments", "dietaryAnalyses"}

\* a result of the symptom checker and one of the mental-health check-in
SymptomResult ==
    checkSymptomsFlow([potentialConditions |-> Arr(<<"Migraine">>),
                       urgency |-> Str("Medium"),
                       urgencyReasoning |-> Str("Persistent pain."),
                       suggestedNextSteps |-> Arr(<<"See a doctor today.">>),
                       doctorRecommendations |-> Undefined,
                       indianMedicalRecommendations |-> Undefined])

MentalResult ==
    assessMentalHealthFlow([assessment |-> Str("Signs of stress."),
                            recommendations |-> Arr(<<"Journaling">>),
                            resourceSuggestions |-> Arr(<<"Counselor">>),
                            crisisWarning |-> Undefined,
                            indianMedicalRecommendations |-> Arr(<<"Dr. K, VIMHANS, Psychologist">>)])

\* the (analysisType, result) pairs save is called with
SaveInputs == {<<"symptomChecks", SymptomResult>>,
               <<"mentalHealthAssessments", MentalResult>>}

(***************************************************************************)
(* Conversions of instants                                                 *)
(***************************************************************************)
\* Date.prototype.toISOString: the text carries the seconds and the
\* milliseconds of the instant in separate fields
toISOString(ms) == [sec |-> ms \div 1000, msec |-> ms % 1000]

\* new Date(text).getTime()
getTime(iso) == iso.sec * 1000 + iso.msec

\* Timestamp.now() of the document database: seconds and nanoseconds
TimestampNow(ms) == [seconds |-> ms \div 1000, nanoseconds |-> (ms % 1000) * 1000000]

\* Timestamp.prototype.toDate
toDate(ts) == ts.seconds * 1000 + ts.nanoseconds \div 1000000

(***************************************************************************)
(* Local backend: one serialized array per user                            *)
(***************************************************************************)
\* getStorageKey with one key for every user
getStorageKeyShared(userId) == <<"userAnalyses_">>

getStorageKey(userId) == <<"userAnalyses_">> \o userId

\* JSON.stringify of an array of records: each record becomes the row of
\* its property values, in the order the record literal lists them
JSONStringify(analyses) ==
    [i \in 1..Len(analyses) |->
        <<analyses[i].id, analyses[i].userId, analyses[i].analysisType,
          analyses[i].result, analyses[i].timestamp>>]

\* JSON.parse of a stored text
JSONParse(text) ==
    [i \in 1..Len(text) |->
        [id |-> text[i][1], userId |-> text[i][2], analysisType |-> text[i][3],
         result |-> text[i][4], timestamp |-> text[i][5]]]

\* the comparator of the sort: b before a when it is negative
compareAnalyses(a, b) == getTime(b.timestamp) - getTime(a.timestamp)

\* the number of elements that analyses.sort(compare) places before the
\* element at index i: those the comparator orders before it and, the sort
\* being stable, those it ties with that stand before it
SortedBefore(analyses, i) ==
    Cardinality({j \in 1..Len(analyses) :
        \/ compareAnalyses(analyses[j], analyses[i]) < 0
        \/ compareAnalyses(analyses[j], analyses[i]) = 0 /\ j < i})

\* analyses.sort((a, b) => new Date(b.timestamp).getTime() - new Date(a.timestamp).getTime())
SortAnalyses(analyses) ==
    [p \in 1..Len(analyses) |->
        analyses[CHOOSE i \in 1..Len(analyses) : SortedBefore(analyses, i) = p - 1]]

\* window is defined wherever the store is called: its callers are event
\* handlers and effects of client components
WindowDefined == TRUE

\* getUserAnalyses of the local backend
getUserAnalysesLocal(userId) ==
    IF ~WindowDefined THEN <<>>
    ELSE IF UserIdMissing(userId) THEN <<>>
    ELSE LET storageKey == getStorageKey(userId)
         IN  IF storageKey \in DOMAIN localStorage /\ localStorage[storageKey] # <<>>
             THEN SortAnalyses(JSONParse(localStorage[storageKey]))
             ELSE <<>>

(***************************************************************************)
(* Remote backend: a collection of documents                               *)
(***************************************************************************)
\* the documents matching where('userId', '==', userId); a query without
\* orderBy returns them by ascending document id
QueryDocs(matching) ==
    [p \in 1..Cardinality(matching) |->
        CHOOSE d \in matching :
            Cardinality({e \in matching : e.id[2] < d.id[2]}) = p - 1]

\* getUserAnalyses of the remote backend
getUserAnalysesRemote(userId) ==
    LET snapshot == QueryDocs({d \in docs : d.data.userId = userId})
    IN  [i \in 1..Len(snapshot) |->
            [id |-> snapshot[i].id,
             userId |-> snapshot[i].data.userId,
             analysisType |-> snapshot[i].data.analysisType,
             timestamp |-> toDate(snapshot[i].data.timestamp),
             result |-> snapshot[i].data.result]]

(***************************************************************************)
(* The save calls.  pc of a call: "idle" (not issued), "awaiting"          *)
(* (suspended at its await), "resolved", "rejected".                       *)
(***************************************************************************)
\* the two interchangeable backends of the service module
Backends == {"local", "remote"}

CallIds == 1..MaxCalls

IdleCall == [pc |-> "idle", backend |-> "none", userId |-> <<>>,
             analysisType |-> "none", result |-> Undefined,
             existingAnalyses |-> <<>>, timestamp |-> TimestampNow(0),
             recordId |-> <<>>,
             readFault |-> FALSE]

\* a call that threw: nothing of it remains but the rejection
RejectedCall == [IdleCall EXCEPT !.pc = "rejected"]

\* calls are issued in the order of their ids
CanIssue(c) ==
    /\ calls[c].pc = "idle"
    /\ \A b \in CallIds : b < c => calls[b].pc # "idle"

\* the document ids already given out
UsedDocIds == {d.id[2] : d \in docs}

\* saveAnalysisResult up to its await: the check of userId and the read of
\* the existing list.  typeof window === 'undefined' returns without saving.
saveAnalysisResult(c, userId, analysisType, result) ==
    /\ store = "local"
    /\ CanIssue(c)
    /\ calls' = [calls EXCEPT ![c] =
          IF ~WindowDefined
          THEN [@ EXCEPT !.pc = "resolved", !.backend = "local", !.userId = userId,
                         !.analysisType = analysisType, !.result = result]
          ELSE IF UserIdMissing(userId)
          THEN RejectedCall
          ELSE [@ EXCEPT !.pc = "awaiting", !.backend = "local", !.userId = userId,
                         !.analysisType = analysisType, !.result = result,
                         !.existingAnalyses = getUserAnalysesLocal(userId)]]
    /\ UNCHANGED <<store, now, docs, localStorage, flowRun>>

\* the catch block of the local getUserAnalyses: return []
getUserAnalysesLocalCatch == <<>>

\* saveAnalysisResult up to its await when the read of the existing list
\* fails (getItem or JSON.parse throws): getUserAnalyses catches the fault
\* and returns [], and the save goes on with it
saveAnalysisResultReadFault(c, userId, analysisType, result) ==
    /\ store = "local"
    /\ CanIssue(c)
    /\ WindowDefined
    /\ ~UserIdMissing(userId)
    /\ calls' = [calls EXCEPT ![c] =
          [@ EXCEPT !.pc = "awaiting", !.backend = "local", !.userId = userId,
                    !.analysisType = analysisType, !.result = result,
                    !.existingAnalyses = getUserAnalysesLocalCatch,
                    !.readFault = TRUE]]
    /\ UNCHANGED <<store, now, docs, localStorage, flowRun>>

\* Math.random().toString(36).substr(2, 9): a suffix no other call draws
RandomSuffix(c) == c

\* newAnalysis with the result left out of the record literal
newAnalysisNoResult(c, suffix) ==
    [id |-> <<calls[c].analysisType, now, suffix>>,
     userId |-> calls[c].userId,
     analysisType |-> calls[c].analysisType,
     result |-> Undefined,
     timestamp |-> toISOString(now)]

\* the record saveAnalysisResult builds once the read is delivered
newAnalysis(c, suffix) ==
    [id |-> <<calls[c].analysisType, now, suffix>>,
     userId |-> calls[c].userId,
     analysisType |-> calls[c].analysisType,
     result |-> calls[c].result,
     timestamp |-> toISOString(now)]

updatedAnalyses(c, suffix) == <<newAnalysis(c, suffix)>> \o calls[c].existingAnalyses

\* saveAnalysisResult after its await: setItem stores the updated list
saveAnalysisResultResume(c) ==
    /\ calls[c].pc = "awaiting"
    /\ calls[c].backend = "local"
    /\ LET suffix == RandomSuffix(c) IN
          /\ localStorage' = [k \in DOMAIN localStorage \cup {getStorageKey(calls[c].userId)} |->
                IF k = getStorageKey(calls[c].userId)
                THEN JSONStringify(updatedAnalyses(c, suffix))
                ELSE localStorage[k]]
          /\ calls' = [calls EXCEPT ![c].pc = "resolved",
                                    ![c].existingAnalyses = <<>>,
                                    ![c].recordId = newAnalysis(c, suffix).id]
    /\ UNCHANGED <<store, now, docs, flowRun>>

\* setItem throws (storage full or unavailable): the call rejects
saveAnalysisResultThrow(c) ==
    /\ calls[c].pc = "awaiting"
    /\ calls[c].backend = "local"
    /\ calls' = [calls EXCEPT ![c] = RejectedCall]
    /\ UNCHANGED <<store, now, docs, localStorage, flowRun>>

\* saveAnalysis up to its await: the document data, sent with addDoc
saveAnalysis(c, userId, analysisType, result) ==
    /\ store = "remote"
    /\ CanIssue(c)
    /\ calls' = [calls EXCEPT ![c] =
          [@ EXCEPT !.pc = "awaiting", !.backend = "remote", !.userId = userId,
                    !.analysisType = analysisType, !.result = result,
                    !.timestamp = TimestampNow(now)]]
    /\ UNCHANGED <<store, now, docs, localStorage, flowRun>>

\* the document addDoc creates
addDocData(c) ==
    [userId |-> calls[c].userId, analysisType |-> calls[c].analysisType,
     timestamp |-> calls[c].timestamp, result |-> calls[c].result]

\* addDoc commits: the document is added under a fresh auto-generated id
addDoc(c) ==
    /\ calls[c].pc = "awaiting"
    /\ calls[c].backend = "remote"
    /\ \E n \in CallIds \ UsedDocIds :
          /\ docs' = docs \cup {[id |-> <<"auto", n>>, data |-> addDocData(c)]}
          /\ calls' = [calls EXCEPT ![c].pc = "resolved",
                                    ![c].timestamp = TimestampNow(0),
                                    ![c].recordId = <<"auto", n>>]
    /\ UNCHANGED <<store, now, localStorage, flowRun>>

\* addDoc rejects (network or permission fault): saveAnalysis rethrows
addDocThrow(c) ==
    /\ calls[c].pc = "awaiting"
    /\ calls[c].backend = "remote"
    /\ calls' = [calls EXCEPT ![c] = RejectedCall]
    /\ UNCHANGED <<store, now, docs, localStorage, flowRun>>

\* a millisecond passes
Tick ==
    /\ now < MaxClock
    /\ now' = now + 1
    /\ UNCHANGED <<store, docs, localStorage, calls, flowRun>>

(***************************************************************************)
(* One run of a flow                                                       *)
(***************************************************************************)
NoObject == [none |-> Undefined]

IdleRun == [pc |-> "idle", flow |-> "none", response |-> NoObject,
            output |-> NoObject, passes |-> 0]

\* the values a text field, an enum field and a list field of a response take
TextValues == {Undefined, Null, Str(""), Str("text")}

UrgencyValues == {Undefined, Null, Str("Low"), Str("High")}

RECURSIVE SeqsUpTo(_, _)
SeqsUpTo(S, n) ==
    IF n = 0 THEN {<<>>}
    ELSE SeqsUpTo(S, n - 1) \cup
         {<<x>> \o s : x \in S, s \in {t \in SeqsUpTo(S, n - 1) : Len(t) = n - 1}}

ListValues == {Undefined, Null} \cup {Arr(s) : s \in SeqsUpTo({"item"}, MaxListLen)}

\* the non-null outputs the prompt of flow f delivers
Responses(f) ==
    CASE f = "analyzeImage" ->
           [assessment : TextValues, recommendations : TextValues,
            doctorRecommendations : ListValues,
            indianMedicalRecommendations : ListValues]
      [] f = "voiceDiagnosis" ->
           [potentialConditions : ListValues, clarifyingQuestions : ListValues,
            doctorRecommendations : ListValues,
            indianMedicalRecommendations : ListValues]
      [] f = "assessMentalHealth" ->
           [assessment : TextValues, recommendations : ListValues,
            resourceSuggestions : ListValues, crisisWarning : TextValues,
            indianMedicalRecommendations : ListValues]
      [] f = "checkSymptoms" ->
           [potentialConditions : ListValues, urgency : UrgencyValues,
            urgencyReasoning : TextValues, suggestedNextSteps : ListValues,
            doctorRecommendations : ListValues,
            indianMedicalRecommendations : ListValues]
      [] f = "analyzeDiet" ->
           [nutritionalBreakdown : TextValues, healthObservations : ListValues,
            improvementSuggestions : ListValues,
            professionalRecommendation : TextValues,
            indianMedicalRecommendations : ListValues]

\* the prompt of flow f answers with a non-null output
Prompt(f) ==
    /\ flowRun.pc = "idle"
    /\ \E o \in Responses(f) :
          flowRun' = [flowRun EXCEPT !.pc = "prompted", !.flow = f, !.response = o]
    /\ UNCHANGED <<storeVars, uiVars>>

\* the prompt of flow f answers with no output: if (!output) throw
PromptNull(f) ==
    /\ flowRun.pc = "idle"
    /\ flowRun' = [flowRun EXCEPT !.pc = "threw", !.flow = f]
    /\ UNCHANGED <<storeVars, uiVars>>

\* voiceDiagnosisFlow called with neither audio nor text: fixed result
VoiceNoSymptoms ==
    /\ flowRun.pc = "idle"
    /\ flowRun' = [flowRun EXCEPT !.pc = "returned", !.flow = "voiceDiagnosis",
                                  !.output = voiceDiagnosisNoSymptoms, !.passes = 1]
    /\ UNCHANGED <<storeVars, uiVars>>

\* the flow back-fills the output and returns it
Return ==
    /\ flowRun.pc = "prompted"
    /\ flowRun' = [flowRun EXCEPT !.pc = "returned",
                                  !.output = Normalize(flowRun.flow, flowRun.response),
                                  !.passes = 1]
    /\ UNCHANGED <<storeVars, uiVars>>

\* the back-fill is applied again to a returned result
Renormalize ==
    /\ flowRun.pc = "returned"
    /\ flowRun.passes = 1
    /\ flowRun' = [flowRun EXCEPT !.output = Normalize(flowRun.flow, flowRun.output),
                                  !.passes = 2]
    /\ UNCHANGED <<storeVars, uiVars>>

(***************************************************************************)
(* The main page (Home): the session holder.  Texts are sequences of       *)
(* characters; a state that is null or a string holds Null or Chars(s).    *)
(***************************************************************************)
Chars(s) == [k |-> "chars", v |-> s]

\* if (x) of a value that is null or a string
Truthy(x) == x # Null /\ x.v # <<>>

\* application/x-www-form-urlencoded, as URLSearchParams writes and reads it
encodeChar(ch) == CASE ch = " " -> "+" [] ch = "+" -> "%2B" [] OTHER -> ch

decodeChar(ch) == CASE ch = "+" -> " " [] ch = "%2B" -> "+" [] OTHER -> ch

\* url.searchParams.set('userId', value): the text of the parameter
searchParamsSet(value) == Chars([i \in 1..Len(value) |-> encodeChar(value[i])])

\* params.get('userId'): null when the parameter is absent
searchParamsGet(search) ==
    IF search = Null THEN Null
    ELSE Chars([i \in 1..Len(search.v) |-> decodeChar(search.v[i])])

\* the texts typed into the User ID field
InputIds == {<<>>, <<" ">>, <<" ", "a">>, <<" ", "a", " ", "+">>}

\* the userId parameter of the address the page is opened with
InitialSearches == {Null, Chars(<<>>), Chars(<<"+">>), Chars(<<"a">>)}

\* the state of Home on its first render at an address
InitialPage(search) ==
    [mounted |-> FALSE, inputUserId |-> <<>>, activeUserId |-> Null,
     search |-> search]

\* the effect that runs once after the first render
useEffectHydrate(p) ==
    LET urlUserId == searchParamsGet(p.search)
    IN  IF Truthy(urlUserId)
        THEN [p EXCEPT !.mounted = TRUE, !.activeUserId = urlUserId,
                       !.inputUserId = urlUserId.v]
        ELSE [p EXCEPT !.mounted = TRUE]

\* handleLogin that activates the input as typed
handleLoginNoTrim(p) ==
    IF Trim(p.inputUserId) = <<>> THEN p
    ELSE [p EXCEPT !.activeUserId = Chars(p.inputUserId),
                   !.search = searchParamsSet(Trim(p.inputUserId))]

\* handleLogin that writes the input as typed to the address
handleLoginRawUrl(p) ==
    IF Trim(p.inputUserId) = <<>> THEN p
    ELSE [p EXCEPT !.activeUserId = Chars(Trim(p.inputUserId)),
                   !.search = searchParamsSet(p.inputUserId)]

\* handleLogin that does not write the address
handleLoginNoUrl(p) ==
    IF Trim(p.inputUserId) = <<>> THEN p
    ELSE [p EXCEPT !.activeUserId = Chars(Trim(p.inputUserId))]

handleLogin(p) ==
    IF Trim(p.inputUserId) = <<>> THEN p
    ELSE [p EXCEPT !.activeUserId = Chars(Trim(p.inputUserId)),
                   !.search = searchParamsSet(Trim(p.inputUserId))]

\* handleLogout that leaves the address as it is
handleLogoutKeepUrl(p) ==
    [p EXCEPT !.activeUserId = Null, !.inputUserId = <<>>]

handleLogout(p) ==
    [p EXCEPT !.activeUserId = Null, !.inputUserId = <<>>, !.search = Null]

\* the Login button is rendered while no user is active and is disabled
\* while the input is blank
LoginEnabled(p) == p.activeUserId = Null /\ Trim(p.inputUserId) # <<>>

\* the Dashboard link and the Logout button are rendered while a user is active
DashboardLinkEnabled(p) == Truthy(p.activeUserId)

\* the userId property the forms are rendered with: activeUserId ?? ""
userIdProp(p) == IF p.activeUserId = Null THEN <<>> ELSE p.activeUserId.v

(***************************************************************************)
(* The analysis forms: ImageAnalysis, SymptomChecker, MentalHealth and     *)
(* DietaryAnalysis.  One form is in use in a behaviour.                    *)
(***************************************************************************)
Features == {"image", "symptom", "mental", "diet"}

FlowOf(feature) ==
    CASE feature = "image"   -> "analyzeImage"
      [] feature = "symptom" -> "checkSymptoms"
      [] feature = "mental"  -> "assessMentalHealth"
      [] feature = "diet"    -> "analyzeDiet"

\* the analysisType the form saves its result with
AnalysisTypeOf(feature) ==
    CASE feature = "image"   -> "imageAnalyses"
      [] feature = "symptom" -> "symptomChecks"
      [] feature = "mental"  -> "mentalHealthAssessments"
      [] feature = "diet"    -> "dietaryAnalyses"

HasPhoto(feature) == feature \in {"image", "diet"}

\* z.string().min(n) of the text the input schema of the flow declares
SymptomsMinLength == 10

DescriptionMinLength == 15

MinLength(feature) ==
    CASE feature = "symptom" -> SymptomsMinLength
      [] feature = "mental"  -> DescriptionMinLength
      [] OTHER -> 0

\* a text of n characters
TextOf(n) == [i \in 1..n |-> "x"]

\* the texts typed into the form: none, and one at and one below the
\* length the input schema asks for
FormTexts(feature) ==
    IF MinLength(feature) = 0 THEN {TextOf(0), TextOf(1)}
    ELSE {TextOf(0), TextOf(MinLength(feature) - 1), TextOf(MinLength(feature))}

\* the files picked in the file input, by MIME type
Files == {[type |-> <<"image", "png">>], [type |-> <<"text", "plain">>]}

\* FileReader.readAsDataURL: data:<type>/<subtype>;base64,<content>
readAsDataURL(file) ==
    <<"data:", file.type[1], "/", file.type[2], ";base64,", "content">>

\* dataUri.startsWith('data:image/')
startsWithDataImage(dataUri) ==
    /\ Len(dataUri) >= 3
    /\ dataUri[1] = "data:" /\ dataUri[2] = "image" /\ dataUri[3] = "/"

InvalidFileType == Str("Invalid file type. Please upload an image (PNG, JPG, WEBP, etc.).")

FileReadFailed == Str("Failed to read the image file.")

UserIdRequired == Str("User ID is required to perform analysis.")

\* the message of the form for a submit without its minimum input
InputRequired(feature) ==
    CASE feature = "image"   -> Str("Please provide both an image and a description.")
      [] feature = "symptom" -> Str("Please describe your symptoms.")
      [] feature = "mental"  -> Str("Please describe how you're feeling or your concerns.")
      [] feature = "diet"    -> Str("Please describe your diet/meal or upload a photo.")

NullOutput == Str("Received null output from the AI model.")

\* the message of the error a flow throws for an input its inputSchema rejects
SchemaRejected == Str("Schema validation failed.")

\* the message of a network or model fault
CallFailed == Str("fetch failed")

\* `Failed to save result: ${errorMessage}`
SaveFailed(errorMessage) == [k |-> "str", v |-> <<"Failed to save result: ", errorMessage>>]

\* the state of a form on its first render.  A result is an object: each
\* completion call returns a new one, and equal contents do not make two
\* results the same.  What the form's state says of the object in result is
\* kept with it: answers, the input object of the call that returned it;
\* savingResult, the save call in flight was given this very object;
\* storedResult, a save call given this very object has resolved.
InitialForm(feature) ==
    [feature |-> feature, text |-> <<>>, photo |-> Null, reader |-> Null,
     result |-> Null, error |-> Null,
     loading |-> FALSE, saving |-> FALSE, saved |-> FALSE,
     completions |-> <<>>, saves |-> {},
     answers |-> Null, savingResult |-> FALSE, storedResult |-> FALSE]

\* setResult(null); setError(null); setSaved(false)
clearState(f) ==
    [f EXCEPT !.result = Null, !.error = Null, !.saved = FALSE,
              !.answers = Null, !.savingResult = FALSE, !.storedResult = FALSE]

\* the minimum input of the feature is there
HasInput(f) ==
    CASE f.feature = "image" -> Truthy(f.photo) /\ f.text # <<>>
      [] f.feature = "diet"  -> f.text # <<>> \/ Truthy(f.photo)
      [] OTHER -> f.text # <<>>

\* canSubmit with the busy flag left out
canSubmitNotBusy(f, userId) == Trim(userId) # <<>> /\ HasInput(f)

\* const canSubmit = !loading && !!userId.trim() && <input>
canSubmit(f, userId) == ~f.loading /\ Trim(userId) # <<>> /\ HasInput(f)

\* the text area and the file input: disabled={loading || !userId.trim()}
InputsEnabled(f, userId) == ~f.loading /\ Trim(userId) # <<>>

\* a Save button that is not disabled once the result is saved
SaveEnabledAfterSaved(f, userId) ==
    f.result # Null /\ ~f.saving /\ userId # <<>>

\* the Save button, rendered with the result:
\* disabled={saving || saved || !userId}
SaveEnabled(f, userId) ==
    f.result # Null /\ ~f.saving /\ ~f.saved /\ userId # <<>>

\* the input object handleSubmit builds (the field names differ by form;
\* an empty text or a null photo of the dietary form is left out)
InputOf(f, userId) == [text |-> f.text, photo |-> f.photo, userId |-> userId]

\* handleSubmit up to its await
handleSubmit(f, userId) ==
    LET f0 == clearState(f)
    IN  IF Trim(userId) = <<>> THEN [f0 EXCEPT !.error = UserIdRequired]
        ELSE IF ~HasInput(f0) THEN [f0 EXCEPT !.error = InputRequired(f0.feature)]
        ELSE [f0 EXCEPT
                !.loading = TRUE,
                !.completions = Append(@, [request |-> InputOf(f0, userId),
                                           stage |-> "awaiting", prompts |-> 0,
                                           output |-> Null])]

\* the inputSchema of the flow accepts the input
SchemaAccepts(feature, request) ==
    /\ Len(request.userId) >= 1
    /\ CASE feature = "image" -> request.photo # Null
         [] feature = "diet"  -> request.text # <<>> \/ Truthy(request.photo)
         [] OTHER -> Len(request.text) >= MinLength(feature)

RemoveAt(q, i) == SubSeq(q, 1, i - 1) \o SubSeq(q, i + 1, Len(q))

\* handleSubmit after its await: setResult, then finally
handleSubmitThen(f, i, result) ==
    [f EXCEPT !.result = result, !.loading = FALSE,
              !.completions = RemoveAt(@, i),
              !.answers = f.completions[i].request,
              !.savingResult = FALSE, !.storedResult = FALSE]

\* handleSubmit after its await threw: catch, then finally
handleSubmitCatch(f, i, errorMessage) ==
    [f EXCEPT !.error = errorMessage, !.loading = FALSE,
              !.completions = RemoveAt(@, i)]

\* a flow that asks the model again when the output is null
flowAfterPromptRetry(f, i) ==
    IF f.completions[i].output = Null
    THEN [f EXCEPT !.completions[i].stage = "awaiting"]
    ELSE handleSubmitThen(f, i, Normalize(FlowOf(f.feature), f.completions[i].output))

\* the flow after await prompt(input): if (!output) throw new Error(...),
\* else the back-fill and return output; the call of the form settles
flowAfterPrompt(f, i) ==
    IF f.completions[i].output = Null
    THEN handleSubmitCatch(f, i, NullOutput)
    ELSE handleSubmitThen(f, i, Normalize(FlowOf(f.feature), f.completions[i].output))

\* handleSaveResult up to its await, for the save call c
handleSaveResult(f, userId, c) ==
    IF f.result = Null \/ userId = <<>> THEN f
    ELSE [f EXCEPT !.saving = TRUE, !.saved = FALSE, !.saves = @ \cup {c},
                   !.savingResult = TRUE]

\* handleSaveResult after its await: setSaved(true), then finally
handleSaveResultThen(f, c) ==
    [f EXCEPT !.saved = TRUE, !.saving = FALSE, !.saves = @ \ {c},
              !.storedResult = @ \/ f.savingResult, !.savingResult = FALSE]

\* a catch block of handleSaveResult that clears the form state
handleSaveResultCatchClears(f, c, errorMessage) ==
    [clearState(f) EXCEPT !.error = SaveFailed(errorMessage), !.saving = FALSE,
                          !.saves = @ \ {c}, !.savingResult = FALSE]

\* handleSaveResult after its await threw: catch, then finally
handleSaveResultCatch(f, c, errorMessage) ==
    [f EXCEPT !.error = SaveFailed(errorMessage), !.saving = FALSE,
              !.saves = @ \ {c}, !.savingResult = FALSE]

\* an output of the prompt of flow f that gives every text and gives list
\* for every list
ResponseWith(f, list) ==
    CASE f = "analyzeImage" ->
           [assessment |-> Str("text"), recommendations |-> Str("text"),
            doctorRecommendations |-> list, indianMedicalRecommendations |-> list]
      [] f = "assessMentalHealth" ->
           [assessment |-> Str("text"), recommendations |-> list,
            resourceSuggestions |-> list, crisisWarning |-> Undefined,
            indianMedicalRecommendations |-> list]
      [] f = "checkSymptoms" ->
           [potentialConditions |-> list, urgency |-> Str("Low"),
            urgencyReasoning |-> Str("text"), suggestedNextSteps |-> list,
            doctorRecommendations |-> list, indianMedicalRecommendations |-> list]
      [] f = "analyzeDiet" ->
           [nutritionalBreakdown |-> Str("text"), healthObservations |-> list,
            improvementSuggestions |-> list,
            professionalRecommendation |-> Str("text"),
            indianMedicalRecommendations |-> list]

\* the non-null output the prompt answers a form with: one that omits the
\* lists, which the flow back-fills
FormResponses(feature) == {ResponseWith(FlowOf(feature), Undefined)}

(***************************************************************************)
(* Steps of the main page                                                  *)
(***************************************************************************)
\* the effect of Home runs after the first render
Hydrate ==
    /\ ~page.mounted
    /\ page' = useEffectHydrate(page)
    /\ UNCHANGED <<storeVars, flowRun, form, dash>>

\* the user types into the User ID field (disabled while a user is active)
setInputUserId(value) ==
    /\ page.mounted
    /\ page.activeUserId = Null
    /\ value # page.inputUserId
    /\ page' = [page EXCEPT !.inputUserId = value]
    /\ UNCHANGED <<storeVars, flowRun, form, dash>>

\* the user presses Login
Login ==
    /\ page.mounted
    /\ LoginEnabled(page)
    /\ page' = handleLogin(page)
    /\ UNCHANGED <<storeVars, flowRun, form, dash>>

\* the user presses Logout
Logout ==
    /\ page.mounted
    /\ page.activeUserId # Null
    /\ page' = handleLogout(page)
    /\ UNCHANGED <<storeVars, flowRun, form, dash>>

\* the user reloads the page: the component state starts anew at the same
\* address; the calls that were in flight are no longer awaited
Reload ==
    /\ page.mounted
    /\ page' = InitialPage(page.search)
    /\ form' = InitialForm(form.feature)
    /\ UNCHANGED <<storeVars, flowRun, dash>>

(***************************************************************************)
(* Steps of the form in use                                                *)
(***************************************************************************)
\* the user edits the text: onChange sets it and clears the state
setText(value) ==
    /\ page.mounted
    /\ InputsEnabled(form, userIdProp(page))
    /\ value # form.text
    /\ form' = clearState([form EXCEPT !.text = value])
    /\ UNCHANGED <<storeVars, flowRun, page, dash>>

\* handleImageChange: the user picks a file (or none) in the file input
handleImageChange(file) ==
    /\ page.mounted
    /\ HasPhoto(form.feature)
    /\ InputsEnabled(form, userIdProp(page))
    /\ form.reader = Null
    /\ form' = IF file # Null
               THEN [clearState(form) EXCEPT !.reader = file]
               ELSE [clearState(form) EXCEPT !.photo = Null]
    /\ UNCHANGED <<storeVars, flowRun, page, dash>>

\* reader.onloadend: the file has been read
readerOnLoadEnd ==
    /\ page.mounted
    /\ form.reader # Null
    /\ LET dataUri == readAsDataURL(form.reader)
       IN  form' = IF ~startsWithDataImage(dataUri)
                   THEN [form EXCEPT !.error = InvalidFileType, !.photo = Null,
                                     !.reader = Null]
                   ELSE [form EXCEPT !.photo = Chars(dataUri), !.reader = Null]
    /\ UNCHANGED <<storeVars, flowRun, page, dash>>

\* reader.onerror: the file could not be read
readerOnError ==
    /\ page.mounted
    /\ form.reader # Null
    /\ form' = [form EXCEPT !.error = FileReadFailed, !.photo = Null,
                            !.reader = Null]
    /\ UNCHANGED <<storeVars, flowRun, page, dash>>

\* the user presses the submit button (disabled={!canSubmit})
Submit ==
    /\ page.mounted
    /\ canSubmit(form, userIdProp(page))
    /\ form' = handleSubmit(form, userIdProp(page))
    /\ UNCHANGED <<storeVars, flowRun, page, dash>>

\* the flow rejects an input that its inputSchema does not accept: the
\* prompt is not called and the call of the form rejects
flowRejectsInput(i) ==
    /\ page.mounted
    /\ form.completions[i].stage = "awaiting"
    /\ ~SchemaAccepts(form.feature, form.completions[i].request)
    /\ form' = handleSubmitCatch(form, i, SchemaRejected)
    /\ UNCHANGED <<storeVars, flowRun, page, dash>>

\* the flow calls its prompt: const {output} = await prompt(input)
flowCallsPrompt(i) ==
    /\ page.mounted
    /\ form.completions[i].stage = "awaiting"
    /\ SchemaAccepts(form.feature, form.completions[i].request)
    /\ form' = [form EXCEPT !.completions[i].stage = "prompting",
                            !.completions[i].prompts = @ + 1]
    /\ UNCHANGED <<storeVars, flowRun, page, dash>>

\* the prompt answers, with an output or with none
promptAnswers(i, output) ==
    /\ page.mounted
    /\ form.completions[i].stage = "prompting"
    /\ form' = [form EXCEPT !.completions[i].stage = "answered",
                            !.completions[i].output = output]
    /\ UNCHANGED <<storeVars, flowRun, page, dash>>

\* the flow goes on with the answer and the call of the form settles
flowSettles(i) ==
    /\ page.mounted
    /\ form.completions[i].stage = "answered"
    /\ form' = flowAfterPrompt(form, i)
    /\ UNCHANGED <<storeVars, flowRun, page, dash>>

\* the call fails with a network or model fault
completionFails(i) ==
    /\ page.mounted
    /\ form' = handleSubmitCatch(form, i, CallFailed)
    /\ UNCHANGED <<storeVars, flowRun, page, dash>>

\* the user presses Save: handleSaveResult calls saveAnalysis
Save(c) ==
    /\ page.mounted
    /\ SaveEnabled(form, userIdProp(page))
    /\ saveAnalysis(c, userIdProp(page), AnalysisTypeOf(form.feature), form.result)
    /\ form' = handleSaveResult(form, userIdProp(page), c)
    /\ UNCHANGED <<page, dash>>

\* the save call of the form resolves (the page never reads the document
\* id: it is taken to be the number of the call)
saveResolves(c) ==
    /\ c \in form.saves
    /\ addDoc(c)
    /\ calls'[c].recordId = <<"auto", c>>
    /\ form' = handleSaveResultThen(form, c)
    /\ UNCHANGED <<page, dash>>

\* the save call of the form rejects
saveRejects(c) ==
    /\ c \in form.saves
    /\ addDocThrow(c)
    /\ form' = handleSaveResultCatch(form, c, "unavailable")
    /\ UNCHANGED <<page, dash>>

\* a save call that the page no longer awaits (it was reloaded) settles
abandonedSaveSettles(c) ==
    /\ c \notin form.saves
    /\ (addDoc(c) /\ calls'[c].recordId = <<"auto", c>>) \/ addDocThrow(c)
    /\ UNCHANGED uiVars

(***************************************************************************)
(* The dashboard page                                                      *)
(***************************************************************************)
\* the state of DashboardPage on its first render at an address whose
\* userId parameter is userId; effect: the effect has yet to run for the
\* userId of the render; lists: the getUserAnalyses calls in flight;
\* logged: the list call that settled last wrote to console.error
InitialDash(userId) ==
    [userId |-> userId, analyses |-> <<>>, loading |-> TRUE, error |-> Null,
     effect |-> TRUE, lists |-> <<>>, logged |-> FALSE]

LoadFailed == Str("Failed to load analysis history.")

\* the effect of DashboardPage for a call of getUserAnalyses that returns
\* the promise call
useEffectList(d, call) ==
    IF Truthy(d.userId)
    THEN [d EXCEPT !.loading = TRUE, !.error = Null, !.effect = FALSE,
                   !.lists = Append(@, call)]
    ELSE [d EXCEPT !.loading = FALSE, !.effect = FALSE]

\* .then(data => setAnalyses(data)) and .finally(() => setLoading(false));
\* logged: getUserAnalyses caught a fault and wrote it to console.error
listThen(d, i, data, logged) ==
    [d EXCEPT !.analyses = data, !.loading = FALSE, !.lists = RemoveAt(@, i),
              !.logged = logged]

\* .catch(err => { console.error(...); setError(...) }) and
\* .finally(() => setLoading(false))
listCatch(d, i) ==
    [d EXCEPT !.error = LoadFailed, !.loading = FALSE, !.lists = RemoveAt(@, i),
              !.logged = TRUE]

\* result.field: undefined for a property the object does not have
Get(result, field) == IF field \in DOMAIN result THEN result[field] ELSE Undefined

\* the result of a record is null or undefined
ResultMissing(result) == "k" \in DOMAIN result /\ Nullish(result)

\* {x && <section>}: a text
TextSection(x) == IF Falsy(x) THEN "absent" ELSE "shown"

\* {x.length > 0 && (... x.map(...))} without the guard x &&
ListSectionUnguarded(x) ==
    IF Nullish(x) THEN "raise"
    ELSE IF IsArray(x) THEN (IF Length(x) > 0 THEN "shown" ELSE "absent")
    ELSE IF Falsy(x) THEN "absent"
    ELSE "raise"

\* {x && x.length > 0 && (... x.map(...))}: only an array has map
ListSection(x) ==
    IF Falsy(x) THEN "absent"
    ELSE IF IsArray(x) THEN (IF Length(x) > 0 THEN "shown" ELSE "absent")
    ELSE "raise"

\* the recommendations section: Array.isArray(x) ? x.map(...) : <li>{x}</li>
RecommendationsSection(x) ==
    IF Falsy(x) THEN "absent"
    ELSE IF IsArray(x) THEN (IF Length(x) > 0 THEN "shown" ELSE "absent")
    ELSE "shown"

\* the sections of AnalysisResultDetails, each "shown", "absent" or "raise"
DetailSections(result, type) ==
    [assessment |-> TextSection(Get(result, "assessment")),
     potentialConditions |-> ListSection(Get(result, "potentialConditions")),
     urgency |-> TextSection(Get(result, "urgency")),
     urgencyReasoning |->
         IF Falsy(Get(result, "urgency")) THEN "absent"
         ELSE TextSection(Get(result, "urgencyReasoning")),
     recommendations |->
         RecommendationsSection(
             OrElse(Get(result, "recommendations"),
                    OrElse(Get(result, "suggestedNextSteps"),
                           Get(result, "improvementSuggestions")))),
     nutritionalBreakdown |-> TextSection(Get(result, "nutritionalBreakdown")),
     healthObservations |-> ListSection(Get(result, "healthObservations")),
     clarifyingQuestions |-> ListSection(Get(result, "clarifyingQuestions")),
     doctorRecommendations |->
         ListSection(OrElse(Get(result, "doctorRecommendations"),
                            Get(result, "resourceSuggestions"))),
     professionalRecommendation |->
         IF type = "dietaryAnalyses"
         THEN TextSection(Get(result, "professionalRecommendation"))
         ELSE "absent",
     crisisWarning |-> TextSection(Get(result, "crisisWarning")),
     indianMedicalRecommendations |->
         ListSection(Get(result, "indianMedicalRecommendations"))]

SectionNames == DOMAIN DetailSections([assessment |-> Undefined], "imageAnalyses")

\* AnalysisResultDetails with potentialConditions.length read without the
\* guard potentialConditions &&
AnalysisResultDetailsUnguarded(result, type) ==
    IF ResultMissing(result) THEN [raised |-> TRUE, shown |-> {}]
    ELSE LET sections == [DetailSections(result, type) EXCEPT
                            !.potentialConditions =
                                ListSectionUnguarded(Get(result, "potentialConditions"))]
         IN  IF \E n \in SectionNames : sections[n] = "raise"
             THEN [raised |-> TRUE, shown |-> {}]
             ELSE [raised |-> FALSE, shown |-> {n \in SectionNames : sections[n] = "shown"}]

\* AnalysisResultDetails: the sections it renders, or a raised TypeError
\* (a property read on a missing result, map called on what is no array)
AnalysisResultDetails(result, type) ==
    IF ResultMissing(result) THEN [raised |-> TRUE, shown |-> {}]
    ELSE LET sections == DetailSections(result, type)
         IN  IF \E n \in SectionNames : sections[n] = "raise"
             THEN [raised |-> TRUE, shown |-> {}]
             ELSE [raised |-> FALSE, shown |-> {n \in SectionNames : sections[n] = "shown"}]

getAnalysisDisplayInfo(type) ==
    CASE type = "imageAnalyses" -> "Skin Image Analysis"
      [] type = "voiceDiagnoses" -> "Symptom Analysis (Audio/Text)"
      [] type = "symptomChecks" -> "Symptom Checker"
      [] type = "mentalHealthAssessments" -> "Mental Well-being Check-in"
      [] type = "dietaryAnalyses" -> "Dietary Analysis"
      [] OTHER -> "Unknown Analysis"

\* the analysisType the results of flow f are saved with
TypeOfFlow(f) ==
    CASE f = "analyzeImage"       -> "imageAnalyses"
      [] f = "voiceDiagnosis"     -> "voiceDiagnoses"
      [] f = "checkSymptoms"      -> "symptomChecks"
      [] f = "assessMentalHealth" -> "mentalHealthAssessments"
      [] f = "analyzeDiet"        -> "dietaryAnalyses"

\* one item of the accordion
AccordionItem(analysis) ==
    [title |-> getAnalysisDisplayInfo(analysis.analysisType),
     details |-> AnalysisResultDetails(analysis.result, analysis.analysisType)]

\* what DashboardPage renders: the loading screen, the "User ID Missing"
\* card, the error card, or the dashboard (header card and history)
DashboardView(d) ==
    IF d.loading
    THEN [view |-> "loading", warning |-> Null, header |-> FALSE,
          history |-> FALSE, items |-> <<>>]
    ELSE IF ~Truthy(d.userId)
    THEN [view |-> "userIdMissing", warning |-> Null, header |-> FALSE,
          history |-> FALSE, items |-> <<>>]
    ELSE IF d.error # Null
    THEN [view |-> "error", warning |-> d.error, header |-> FALSE,
          history |-> FALSE, items |-> <<>>]
    ELSE [view |-> "dashboard", warning |-> Null, header |-> TRUE,
          history |-> TRUE,
          items |-> [i \in 1..Len(d.analyses) |-> AccordionItem(d.analyses[i])]]

\* the addresses the dashboard is opened at and navigated to: the values
\* of searchParams.get('userId')
DashAddresses == {Null, Chars(<<>>), Chars(<<"a">>), Chars(<<"a", " ">>)}

\* the saves made while the dashboard is open: (userId, analysisType,
\* result)
DashSaveInputs ==
    {<<<<"a">>, "symptomChecks", SymptomResult>>,
     <<<<"a", " ">>, "mentalHealthAssessments", MentalResult>>}

\* the effect runs (after the first render and after a render with another
\* userId) on the local backend: getUserAnalyses reads the storage before it
\* returns, so its promise is settled before any other event is handled;
\* fault: getItem or JSON.parse throws
dashEffectLocal(fault) ==
    /\ store = "local"
    /\ dash.effect
    /\ fault => Truthy(dash.userId)
    /\ dash' = IF Truthy(dash.userId)
               THEN LET data == IF fault THEN getUserAnalysesLocalCatch
                                ELSE getUserAnalysesLocal(dash.userId.v)
                        d == useEffectList(dash, [userId |-> dash.userId.v])
                    IN  listThen(d, Len(d.lists), data, fault)
               ELSE useEffectList(dash, [userId |-> <<>>])
    /\ UNCHANGED <<storeVars, flowRun, page, form>>

\* the effect runs on the remote backend: getUserAnalyses awaits getDocs
dashEffectRemote ==
    /\ store = "remote"
    /\ dash.effect
    /\ Len(dash.lists) < MaxLists
    /\ dash' = useEffectList(dash, [userId |-> IF Truthy(dash.userId) THEN dash.userId.v ELSE <<>>])
    /\ UNCHANGED <<storeVars, flowRun, page, form>>

\* the userId parameter of the address changes while the dashboard is
\* mounted (history navigation): the page renders with the new userId and
\* its effect is due
dashNavigate(userId) ==
    /\ ~dash.effect
    /\ userId # dash.userId
    /\ dash' = [dash EXCEPT !.userId = userId, !.effect = TRUE]
    /\ UNCHANGED <<storeVars, flowRun, page, form>>

\* getDocs resolves: the list call i returns the documents of its userId
listResolves(i) ==
    /\ dash' = listThen(dash, i, getUserAnalysesRemote(dash.lists[i].userId), FALSE)
    /\ UNCHANGED <<storeVars, flowRun, page, form>>

\* getDocs rejects: getUserAnalyses rethrows
listRejects(i) ==
    /\ dash' = listCatch(dash, i)
    /\ UNCHANGED <<storeVars, flowRun, page, form>>

(***************************************************************************)
(* Specifications                                                          *)
(***************************************************************************)
\* the store is empty and no flow runs
StoreInit ==
    /\ store \in Backends
    /\ now = 999
    /\ docs = {}
    /\ localStorage = <<>>
    /\ calls = [c \in CallIds |-> IdleCall]
    /\ flowRun = IdleRun

\* the page is opened at its plain address, on its default tab
Init ==
    /\ StoreInit
    /\ page = InitialPage(Null)
    /\ form = InitialForm("image")
    /\ dash = InitialDash(Null)

Next ==
    \/ \E c \in CallIds, userId \in UserIds, in \in SaveInputs :
          saveAnalysisResult(c, userId, in[1], in[2]) /\ UNCHANGED uiVars
    \/ \E c \in CallIds, userId \in UserIds, in \in SaveInputs :
          saveAnalysisResultReadFault(c, userId, in[1], in[2]) /\ UNCHANGED uiVars
    \/ \E c \in CallIds : saveAnalysisResultResume(c) /\ UNCHANGED uiVars
    \/ \E c \in CallIds : saveAnalysisResultThrow(c) /\ UNCHANGED uiVars
    \/ \E c \in CallIds, userId \in UserIds, in \in SaveInputs :
          saveAnalysis(c, userId, in[1], in[2]) /\ UNCHANGED uiVars
    \/ \E c \in CallIds : addDoc(c) /\ UNCHANGED uiVars
    \/ \E c \in CallIds : addDocThrow(c) /\ UNCHANGED uiVars
    \/ Tick /\ UNCHANGED uiVars

Spec == Init /\ [][Next]_vars

FlowNext ==
    \/ \E f \in FlowNames : Prompt(f)
    \/ \E f \in FlowNames : PromptNull(f)
    \/ VoiceNoSymptoms
    \/ Return
    \/ Renormalize

\* the flows run on the server, whichever backend the client stores with
FlowInit == Init /\ store = "remote"

FlowSpec == FlowInit /\ [][FlowNext]_vars

\* the page is opened at an address, and one of its forms is used; the
\* forms save with saveAnalysis, the remote backend
PageInit ==
    /\ StoreInit
    /\ store = "remote"
    /\ page \in {InitialPage(search) : search \in InitialSearches}
    /\ form \in {InitialForm(feature) : feature \in Features}
    /\ dash = InitialDash(Null)

PageNext ==
    \/ Hydrate
    \/ \E value \in InputIds : setInputUserId(value)
    \/ Login
    \/ Logout
    \/ Reload
    \/ \E value \in FormTexts(form.feature) : setText(value)
    \/ \E file \in Files \cup {Null} : handleImageChange(file)
    \/ readerOnLoadEnd
    \/ readerOnError
    \/ Submit
    \/ \E i \in 1..Len(form.completions) : flowRejectsInput(i)
    \/ \E i \in 1..Len(form.completions) : flowCallsPrompt(i)
    \/ \E i \in 1..Len(form.completions),
          output \in FormResponses(form.feature) \cup {Null} : promptAnswers(i, output)
    \/ \E i \in 1..Len(form.completions) : flowSettles(i)
    \/ \E i \in 1..Len(form.completions) : completionFails(i)
    \/ \E c \in CallIds : Save(c)
    \/ \E c \in CallIds : saveResolves(c)
    \/ \E c \in CallIds : saveRejects(c)
    \/ \E c \in CallIds : abandonedSaveSettles(c)

PageSpec == PageInit /\ [][PageNext]_vars

\* a completion call that was started does settle: the flow validates, the
\* prompt answers, the promise resolves or rejects (each of these steps
\* changes form and nothing else)
PageFairness ==
    /\ WF_form(\E i \in 1..Len(form.completions) : flowRejectsInput(i))
    /\ WF_form(\E i \in 1..Len(form.completions) : flowCallsPrompt(i))
    /\ WF_form(\E i \in 1..Len(form.completions) :
                  \E output \in FormResponses(form.feature) \cup {Null} :
                      promptAnswers(i, output))
    /\ WF_form(\E i \in 1..Len(form.completions) : flowSettles(i))

PageLiveSpec == PageSpec /\ PageFairness

\* the dashboard is opened at an address; analyses are saved meanwhile
DashInit ==
    /\ StoreInit
    /\ page = InitialPage(Null)
    /\ form = InitialForm("image")
    /\ dash \in {InitialDash(userId) : userId \in DashAddresses}

DashNext ==
    \/ \E fault \in BOOLEAN : dashEffectLocal(fault)
    \/ dashEffectRemote
    \/ \E userId \in DashAddresses : dashNavigate(userId)
    \/ \E i \in 1..Len(dash.lists) : listResolves(i)
    \/ \E i \in 1..Len(dash.lists) : listRejects(i)
    \/ \E c \in CallIds, in \in DashSaveInputs :
          saveAnalysisResult(c, in[1], in[2], in[3]) /\ UNCHANGED uiVars
    \/ \E c \in CallIds : saveAnalysisResultResume(c) /\ UNCHANGED uiVars
    \/ \E c \in CallIds, in \in DashSaveInputs :
          saveAnalysis(c, in[1], in[2], in[3]) /\ UNCHANGED uiVars
    \/ \E c \in CallIds : addDoc(c) /\ UNCHANGED uiVars

DashSpec == DashInit /\ [][DashNext]_vars


(***************************************************************************)
(* Vocabulary of the properties                                            *)
(***************************************************************************)
Resolved(c) == calls[c].pc = "resolved"

\* getUserAnalyses(userId) of the service module
list(userId) ==
    IF store = "local" THEN getUserAnalysesLocal(userId)
    ELSE getUserAnalysesRemote(userId)

\* the instant of a listed record, in milliseconds
TimeOf(r) ==
    IF store = "local" THEN getTime(r.timestamp) ELSE r.timestamp

\* list(userId) holds the record that the resolved call c created
Listed(c) ==
    LET l == list(calls[c].userId)
    IN  \E i \in 1..Len(l) : l[i].id = calls[c].recordId

\* call c takes a step / completes successfully in this step
StepOf(c) == calls'[c].pc # calls[c].pc

Completes(c) == calls[c].pc # "resolved" /\ calls'[c].pc = "resolved"

(***************************************************************************)
(* C1  Append atomicity: when two save calls with the same userId have     *)
(* both completed, in whatever interleaving, list(userId) contains the     *)
(* records of both.                                                        *)
(***************************************************************************)
C1_AppendAtomicity ==
    \A c1, c2 \in CallIds :
        ( /\ c1 # c2
          /\ Resolved(c1) /\ Resolved(c2)
          /\ calls[c1].userId = calls[c2].userId )
        => Listed(c1) /\ Listed(c2)

IsolatedLists ==
    \A userId \in UserIds :
        LET l == list(userId)
        IN  \A i \in 1..Len(l) :
                /\ l[i].userId = userId
                /\ \A c \in CallIds :
                      (Resolved(c) /\ calls[c].userId # userId)
                      => l[i].id # calls[c].recordId

SaveLeavesOthers ==
    \A c \in CallIds :
        StepOf(c) =>
            \A userId \in UserIds \ {calls'[c].userId} :
                list(userId)' = list(userId)

C3_Isolation == []IsolatedLists /\ [][SaveLeavesOthers]_vars

\* two users of one backend each have a record of their own
C3_Witness ==
    \E c1, c2 \in CallIds :
        /\ Resolved(c1) /\ Resolved(c2)
        /\ calls[c1].backend = "local" /\ calls[c2].backend = "local"
        /\ calls[c1].userId # calls[c2].userId
        /\ Listed(c1) /\ Listed(c2)

(***************************************************************************)
(* C4  Round-trip: in the state a save completes successfully in,          *)
(* list(userId) contains a record with the result, the analysisType and    *)
(* the userId the save was called with.                                    *)
(***************************************************************************)
RoundTripOf(c) ==
    LET l == list(calls[c].userId)
    IN  \E i \in 1..Len(l) :
            /\ l[i].id = calls[c].recordId
            /\ l[i].result = calls[c].result
            /\ l[i].analysisType = calls[c].analysisType
            /\ l[i].userId = calls[c].userId

SaveRoundTrips == \A c \in CallIds : Completes(c) => RoundTripOf(c)'

RecordsOf(userId) ==
    LET l == list(userId) IN {l[i] : i \in 1..Len(l)}

RecordsKept == \A userId \in UserIds : RecordsOf(userId) \subseteq RecordsOf(userId)'

C5_AppendOnly == [][RecordsKept]_vars

(***************************************************************************)
(* C6  Empty-history safety: list(userId) is the empty sequence for a      *)
(* userId no save has completed for, and for an empty or whitespace-only   *)
(* userId.                                                                 *)
(***************************************************************************)
C6_EmptyHistory ==
    \A userId \in UserIds :
        ( \/ UserIdMissing(userId)
          \/ ~\E c \in CallIds : /\ Resolved(c)
                                 /\ calls[c].userId = userId )
        => list(userId) = <<>>

(***************************************************************************)
(* C7  A save with an empty or whitespace-only userId never completes      *)
(* successfully and creates no record, in either backend.                  *)
(***************************************************************************)
C7_SaveRequiresUserId ==
    /\ \A c \in CallIds : UserIdMissing(calls[c].userId) => ~Resolved(c)
    /\ \A d \in docs : ~UserIdMissing(d.data.userId)
    /\ \A userId \in UserIds :
          UserIdMissing(userId) => getStorageKey(userId) \notin DOMAIN localStorage

(***************************************************************************)
(* Vocabulary of the flow properties                                       *)
(***************************************************************************)
\* the run has returned the back-filled output of a non-null response
Returned(f) ==
    /\ flowRun.pc = "returned"
    /\ flowRun.flow = f
    /\ flowRun.response # NoObject

\* the response omitted the field (or gave null) or gave an empty list
OmittedOrEmpty(x) == Nullish(x) \/ x = Arr(<<>>)

NonEmptyList(x) == IsArray(x) /\ Length(x) > 0

(***************************************************************************)
(* C8  Required-list back-fill: the result of the image, voice and symptom *)
(* flows has a non-empty doctorRecommendations, which is                   *)
(* ["General Practitioner"] when the response omitted the list or gave an  *)
(* empty one; the result of the mental-health flow has a non-empty         *)
(* resourceSuggestions, which is ["General Practitioner", "Mental Health   *)
(* Professional"] when the response omitted the list or gave an empty one. *)
(***************************************************************************)
C8_RequiredListBackfill ==
    /\ \A f \in {"analyzeImage", "voiceDiagnosis", "checkSymptoms"} :
          Returned(f) =>
              /\ NonEmptyList(flowRun.output.doctorRecommendations)
              /\ OmittedOrEmpty(flowRun.response.doctorRecommendations)
                 => flowRun.output.doctorRecommendations = GeneralPractitioner
    /\ Returned("assessMentalHealth") =>
          /\ NonEmptyList(flowRun.output.resourceSuggestions)
          /\ OmittedOrEmpty(flowRun.response.resourceSuggestions)
             => flowRun.output.resourceSuggestions = MentalHealthFallback

\* a symptom-check response with every field given and an empty
\* doctorRecommendations has been back-filled
C8_Witness ==
    /\ Returned("checkSymptoms")
    /\ flowRun.response.doctorRecommendations = Arr(<<>>)
    /\ \A field \in DOMAIN flowRun.response \ {"doctorRecommendations"} :
          ~Falsy(flowRun.response[field])
    /\ flowRun.output.doctorRecommendations = GeneralPractitioner

(***************************************************************************)
(* C9  Back-fill idempotence: in each of the five flows, applying the      *)
(* back-fill to a result the back-fill returned leaves it unchanged.       *)
(***************************************************************************)
C9_BackfillIdempotent ==
    \A f \in FlowNames :
        Returned(f) => Normalize(f, flowRun.output) = flowRun.output

\* the back-fill changed a mental-health response, was applied a second
\* time, and the result is that of the first application
C9_Witness ==
    /\ Returned("assessMentalHealth")
    /\ flowRun.passes = 2
    /\ flowRun.response.resourceSuggestions = Undefined
    /\ flowRun.response.assessment = Str("")
    /\ flowRun.output = assessMentalHealthFlow(flowRun.response)

(***************************************************************************)
(* C10  The back-fill changes only missing fields: a symptom-check         *)
(* response that omits doctorRecommendations and                           *)
(* indianMedicalRecommendations and gives every other field is returned    *)
(* with doctorRecommendations = ["General Practitioner"],                  *)
(* indianMedicalRecommendations = [] and every other field as given.       *)
(***************************************************************************)
OmitsOnlyRecommendations(o) ==
    /\ o.doctorRecommendations = Undefined
    /\ o.indianMedicalRecommendations = Undefined
    /\ \A field \in DOMAIN o \ {"doctorRecommendations", "indianMedicalRecommendations"} :
          ~Nullish(o[field])

C10_OnlyMissingFieldsChange ==
    (Returned("checkSymptoms") /\ OmitsOnlyRecommendations(flowRun.response))
    => flowRun.output =
          [flowRun.response EXCEPT
              !.doctorRecommendations = GeneralPractitioner,
              !.indianMedicalRecommendations = Arr(<<>>)]

\* such a response, one of whose given fields is an empty text, has been
\* returned
C10_Witness ==
    /\ Returned("checkSymptoms")
    /\ flowRun.passes = 1
    /\ OmitsOnlyRecommendations(flowRun.response)
    /\ flowRun.response.urgencyReasoning = Str("")
    /\ flowRun.output.urgencyReasoning = Str("")
    /\ flowRun.output.doctorRecommendations = GeneralPractitioner

(***************************************************************************)
(* C11  Optional-list back-fill.  As claimed: in every flow a list field   *)
(* that the response omits, other than the required recommendation list,   *)
(* is the empty list in the result, and indianMedicalRecommendations is    *)
(* never absent from a result.                                             *)
(***************************************************************************)
RequiredLists == {"doctorRecommendations", "resourceSuggestions"}

\* the list-valued fields of the result of flow f
ListFields(f) ==
    CASE f = "analyzeImage" ->
           {"doctorRecommendations", "indianMedicalRecommendations"}
      [] f = "voiceDiagnosis" ->
           {"potentialConditions", "clarifyingQuestions", "doctorRecommendations",
            "indianMedicalRecommendations"}
      [] f = "assessMentalHealth" ->
           {"recommendations", "resourceSuggestions", "indianMedicalRecommendations"}
      [] f = "checkSymptoms" ->
           {"potentialConditions", "suggestedNextSteps", "doctorRecommendations",
            "indianMedicalRecommendations"}
      [] f = "analyzeDiet" ->
           {"healthObservations", "improvementSuggestions",
            "indianMedicalRecommendations"}

IndianNeverAbsent ==
    flowRun.pc = "returned" => IsArray(flowRun.output.indianMedicalRecommendations)

C11_OmittedListsEmpty ==
    /\ \A f \in FlowNames :
          Returned(f) =>
              \A field \in ListFields(f) \ RequiredLists :
                  flowRun.response[field] = Undefined
                  => flowRun.output[field] = Arr(<<>>)
    /\ IndianNeverAbsent

\* C11 as amended: an omitted list field other than the required
\* recommendation list is the empty list in the result, except that
\* clarifyingQuestions, recommendations (mental health) and
\* suggestedNextSteps are a fixed one-sentence list; and
\* indianMedicalRecommendations is never absent from a result.
PlaceholderOf(field) ==
    CASE field = "clarifyingQuestions" -> Arr(<<"Could not generate questions.">>)
      [] field = "recommendations" ->
           Arr(<<"Consider practicing self-care and reaching out for support.">>)
      [] field = "suggestedNextSteps" -> Arr(<<"Consult a healthcare professional.">>)
      [] OTHER -> Arr(<<>>)

C11_OmittedListsBackfilled ==
    /\ \A f \in FlowNames :
          Returned(f) =>
              \A field \in ListFields(f) \ RequiredLists :
                  flowRun.response[field] = Undefined
                  => flowRun.output[field] = PlaceholderOf(field)
    /\ IndianNeverAbsent

\* a dietary response that omits the three lists and gives the two texts
\* has been returned with three empty lists
C11_Witness ==
    /\ Returned("analyzeDiet")
    /\ flowRun.response.healthObservations = Undefined
    /\ flowRun.response.improvementSuggestions = Undefined
    /\ flowRun.response.indianMedicalRecommendations = Undefined
    /\ flowRun.response.nutritionalBreakdown = Str("text")
    /\ flowRun.output.healthObservations = Arr(<<>>)
    /\ flowRun.output.indianMedicalRecommendations = Arr(<<>>)

(***************************************************************************)
(* Vocabulary of the properties of the page and its forms                  *)
(***************************************************************************)
\* the completion calls of the form that are in flight
InFlight == 1..Len(form.completions)

\* this step settles the completion call i of the form
Settles(i) ==
    /\ page'.mounted
    /\ form'.completions = RemoveAt(form.completions, i)

\* this step starts a completion call
StartsCompletion == Len(form'.completions) > Len(form.completions)

(***************************************************************************)
(* C12  A null output of the model is fatal for the request: the call      *)
(* settles with the error of the flow and no result; the model is called   *)
(* at most once per request, exactly once before any answer; and a         *)
(* completion call starts only by a submit of the user on the idle form,   *)
(* never as a retry.                                                       *)
(***************************************************************************)
PromptedOnce ==
    \A i \in InFlight :
        /\ form.completions[i].prompts <= 1
        /\ form.completions[i].stage \in {"prompting", "answered"}
           => form.completions[i].prompts = 1

NullOutputFatal ==
    \A i \in InFlight :
        ( /\ form.completions[i].stage = "answered"
          /\ form.completions[i].output = Null
          /\ Settles(i) )
        => /\ form'.error \in {NullOutput, CallFailed}
           /\ form'.result = Null
           /\ ~form'.loading
           /\ form'.completions = <<>>

NoRetry ==
    /\ \A i \in InFlight :
          form.completions[i].stage = "answered" /\ form.completions[i].output = Null
          => form'.completions \in {form.completions, RemoveAt(form.completions, i), <<>>}
    /\ StartsCompletion =>
          /\ form.completions = <<>>
          /\ canSubmit(form, userIdProp(page))
          /\ ~form.loading /\ form'.loading

Anonymous == page.activeUserId = Null

Active == page.activeUserId # Null

(***************************************************************************)
(* C13  Login transition: from the anonymous state, login with an input    *)
(* whose trimmed value is not empty makes the session active with the      *)
(* trimmed input as identifier and sets the URL parameter userId to the    *)
(* same value; with an empty or whitespace-only input the session stays    *)
(* anonymous and the URL is unchanged.                                     *)
(***************************************************************************)
LoginOutcome ==
    (page.mounted /\ Anonymous) =>
        IF Trim(page.inputUserId) # <<>>
        THEN /\ handleLogin(page).activeUserId = Chars(Trim(page.inputUserId))
             /\ searchParamsGet(handleLogin(page).search) = Chars(Trim(page.inputUserId))
        ELSE handleLogin(page) = page

LoginTransition ==
    (page.mounted /\ Anonymous /\ page'.mounted) =>
        /\ page'.activeUserId # Null =>
              /\ Trim(page.inputUserId) # <<>>
              /\ page' = handleLogin(page)
              /\ page'.activeUserId = Chars(Trim(page.inputUserId))
              /\ searchParamsGet(page'.search) = page'.activeUserId
        /\ Trim(page.inputUserId) = <<>> =>
              /\ page'.activeUserId = Null
              /\ page'.search = page.search

C13_Login == []LoginOutcome /\ [][LoginTransition]_vars

\* a login with the input " a" has made "a" the active identifier and the
\* value of the URL parameter
C13_Witness ==
    /\ page.mounted
    /\ page.inputUserId = <<" ", "a">>
    /\ page.activeUserId = Chars(<<"a">>)
    /\ searchParamsGet(page.search) = Chars(<<"a">>)

(***************************************************************************)
(* C14  Logout transition: from the active state, logout makes the session *)
(* anonymous and removes the URL parameter userId, so that neither holds   *)
(* the previous identifier.                                                *)
(***************************************************************************)
LogoutOutcome ==
    (page.mounted /\ Active) =>
        /\ handleLogout(page).activeUserId = Null
        /\ searchParamsGet(handleLogout(page).search) = Null
        /\ handleLogout(page).inputUserId = <<>>

LogoutTransition ==
    (page.mounted /\ Active /\ page'.mounted /\ page'.activeUserId = Null) =>
        /\ page' = handleLogout(page)
        /\ searchParamsGet(page'.search) = Null

C14_Logout == []LogoutOutcome /\ [][LogoutTransition]_vars

\* the user has logged out while the form showed a result: the session is
\* anonymous and the URL carries no userId
C14_Witness ==
    /\ page.mounted
    /\ Anonymous
    /\ page.search = Null
    /\ form.result # Null

(***************************************************************************)
(* C15  The forms are enabled exactly when the session is active: while    *)
(* it is anonymous the inputs and the submit button of the form are        *)
(* disabled, and while it is active the inputs of a form that is not busy  *)
(* are enabled and the dashboard link is enabled.                          *)
(***************************************************************************)
C15_FormsEnabledIffActive ==
    /\ Anonymous =>
          /\ ~InputsEnabled(form, userIdProp(page))
          /\ ~canSubmit(form, userIdProp(page))
    /\ Active =>
          /\ ~form.loading => InputsEnabled(form, userIdProp(page))
          /\ DashboardLinkEnabled(page)

(***************************************************************************)
(* C16  Reload safety: a reload of the page (the component state starts    *)
(* anew, the URL is kept) followed by the startup hydration restores the   *)
(* session: active with the same identifier if it was active, anonymous    *)
(* if it was anonymous.                                                    *)
(***************************************************************************)
\* the page after a reload at its present address and the hydration
Reloaded == useEffectHydrate(InitialPage(page.search))

C16_ReloadSafe ==
    page.mounted =>
        /\ Reloaded.activeUserId = page.activeUserId
        /\ Reloaded.mounted

\* the user logged in with " a +" and the page was then reloaded: the
\* session is active with "a +" and the input shows the hydrated identifier
C16_Witness ==
    /\ page.mounted
    /\ page.activeUserId = Chars(<<"a", " ", "+">>)
    /\ page.inputUserId = <<"a", " ", "+">>

(***************************************************************************)
(* C17  Busy-flag guard: in every reachable state a form has at most one   *)
(* completion call in flight and at most one save call in flight; a submit *)
(* starts a completion call only when none is in flight, and a save only   *)
(* when none is in flight.                                                 *)
(***************************************************************************)
AtMostOneInFlight ==
    /\ Len(form.completions) <= 1
    /\ Cardinality(form.saves) <= 1
    /\ form.completions # <<>> => form.loading
    /\ form.saves # {} => form.saving

StartsSave == form'.saves \ form.saves # {}

StartsWhenIdle ==
    /\ StartsCompletion => form.completions = <<>> /\ ~form.loading
    /\ StartsSave => form.saves = {} /\ ~form.saving

ValidInput(f, userId) ==
    /\ Trim(userId) # <<>>
    /\ f.photo # Null => startsWithDataImage(f.photo.v)
    /\ CASE f.feature = "image" -> Truthy(f.photo) /\ f.text # <<>>
         [] f.feature = "diet"  -> f.text # <<>> \/ Truthy(f.photo)
         [] OTHER -> f.text # <<>> /\ Len(f.text) >= MinLength(f.feature)

BecomesBusy == ~form.loading /\ form'.loading

C18_ValidationBeforeCall ==
    [][(StartsCompletion \/ BecomesBusy) => ValidInput(form, userIdProp(page))]_vars

(***************************************************************************)
(* C19  Completion failure: when the completion call of a form fails, the  *)
(* error state is set to the message of the failure, the busy flag is      *)
(* false again, no result is shown, the inputs of the form have the values *)
(* they had at the submit, no call is in flight afterwards (no retry), and *)
(* the user, if still active, can submit the same inputs again.            *)
(***************************************************************************)
\* this step settles the completion call i with a failure: the call had no
\* output of the model to return, or the step sets the error state
Fails(i) ==
    /\ Settles(i)
    /\ \/ form.completions[i].stage # "answered"
       \/ form.completions[i].output = Null
       \/ form'.error \notin {Null, form.error}

\* what the catch and finally blocks do on the failure
FailureSurfaced(i) ==
    /\ form'.error \in {SchemaRejected, CallFailed, NullOutput}
    /\ ~form'.loading
    /\ form'.result = Null
    /\ form'.text = form.text
    /\ form'.photo = form.photo
    /\ form'.completions = <<>>

\* the form is populated as it was at the submit and can be submitted again
InputsAsSubmitted(i) ==
    /\ form'.text = form.completions[i].request.text
    /\ form'.photo = form.completions[i].request.photo
    /\ Trim(userIdProp(page')) # <<>> => canSubmit(form', userIdProp(page'))

C19_CompletionFailure ==
    [][\A i \in InFlight : Fails(i) => FailureSurfaced(i) /\ InputsAsSubmitted(i)]_vars

(***************************************************************************)
(* C20  Save failure: when the save call of a form fails, the result state *)
(* is unchanged (the computed result stays on screen), the saved flag is   *)
(* false, the saving flag is false again, the error state holds the        *)
(* failure, and the Save button is enabled again for a result on screen    *)
(* of an active user.                                                      *)
(***************************************************************************)
\* this step rejects the save call c that the form awaits
SaveFails(c) ==
    /\ c \in form.saves
    /\ calls[c].pc = "awaiting"
    /\ calls'[c].pc = "rejected"

SaveFailureOutcome ==
    \A c \in CallIds :
        SaveFails(c) =>
            /\ form'.result = form.result
            /\ ~form'.saved
            /\ ~form'.saving
            /\ form'.error = SaveFailed("unavailable")
            /\ form'.saves = {}
            /\ form'.text = form.text /\ form'.photo = form.photo
            /\ (form'.result # Null /\ userIdProp(page') # <<>>)
               => SaveEnabled(form', userIdProp(page'))

ListFailed ==
    /\ ~dash.effect
    /\ ~dash.loading
    /\ dash.lists = <<>>
    /\ Truthy(dash.userId)
    /\ dash.logged

C21_ListFailureDegrades ==
    ListFailed =>
        /\ DashboardView(dash).warning # Null
        /\ DashboardView(dash).header
        /\ DashboardView(dash).history
        /\ DashboardView(dash).items = <<>>

(***************************************************************************)
(* C22  A record is created exactly once per analysis: a result appears on *)
(* screen only when a completion call returns it; a save is issued only    *)
(* for the result on screen, of a completed call, that no resolved save    *)
(* and no save in flight was given before; and every document holds a      *)
(* result that a completion call returned.                                 *)
(***************************************************************************)
\* the results the completion calls of the form in use can return
ReturnedResults ==
    {Normalize(FlowOf(form.feature), o) : o \in FormResponses(form.feature)}

ResultsAreReturned ==
    /\ form.result # Null => form.result \in ReturnedResults /\ form.answers # Null
    /\ \A d \in docs : d.data.result \in ReturnedResults
    /\ \A c \in form.saves : calls[c].result \in ReturnedResults
    /\ form.storedResult => form.saved /\ form.result # Null

\* a new result is on screen after this step
NewResult == form'.result # Null /\ (form.result = Null \/ form'.answers # form.answers)

ResultOnlyFromCompletion ==
    NewResult =>
        \E i \in InFlight :
            /\ Settles(i)
            /\ form.completions[i].stage = "answered"
            /\ form.completions[i].output # Null
            /\ form'.result = Normalize(FlowOf(form.feature), form.completions[i].output)

SaveOncePerResult ==
    StartsSave =>
        /\ form.result # Null
        /\ form'.result = form.result
        /\ form.completions = <<>>
        /\ ~form.storedResult
        /\ ~form.savingResult
        /\ \A c \in form'.saves \ form.saves : calls'[c].result = form.result

StoredRecord ==
    JSONParse(JSONStringify(<<[id |-> <<TypeOfFlow(flowRun.flow), now, 1>>,
                               userId |-> <<"a">>,
                               analysisType |-> TypeOfFlow(flowRun.flow),
                               result |-> flowRun.output,
                               timestamp |-> toISOString(now)]>>))[1]

\* the fields of the result that the section displays
FieldsOf(section) ==
    CASE section = "recommendations" ->
           {"recommendations", "suggestedNextSteps", "improvementSuggestions"}
      [] section = "doctorRecommendations" ->
           {"doctorRecommendations", "resourceSuggestions"}
      [] OTHER -> {section}

\* the field is in the result and is neither null, "" nor []
Present(result, field) ==
    /\ field \in DOMAIN result
    /\ ~Nullish(result[field])
    /\ result[field] # Str("")
    /\ result[field] # Arr(<<>>)

C23_RendererRobust ==
    flowRun.pc = "returned" =>
        LET item == AccordionItem(StoredRecord)
        IN  /\ ~item.details.raised
            /\ item.title # "Unknown Analysis"
            /\ \A section \in item.details.shown :
                  \E field \in FieldsOf(section) : Present(StoredRecord.result, field)
            /\ \A field \in DOMAIN StoredRecord.result :
                  Present(StoredRecord.result, field) =>
                      \E section \in item.details.shown : field \in FieldsOf(section)

\* a mental-health result without crisis warning and with an empty text is
\* rendered: its lists are shown, the missing fields are absent sections
C23_Witness ==
    /\ flowRun.pc = "returned"
    /\ flowRun.flow = "assessMentalHealth"
    /\ flowRun.output.crisisWarning = Undefined
    /\ flowRun.output.assessment = Str("")
    /\ AccordionItem(StoredRecord).details.shown =
          {"recommendations", "doctorRecommendations"}

(***************************************************************************)
(* C24  In every reachable state of a form, if the saved flag is true and  *)
(* a result is on screen, a save call given that result has resolved: a    *)
(* save of an earlier result that resolves after the user obtained a new   *)
(* result does not mark the new result as saved.                           *)
(***************************************************************************)
C24_SavedMeansPersisted ==
    (form.saved /\ form.result # Null) => form.storedResult

(***************************************************************************)
(* C25  Every record saved under a userId holds a result returned by a     *)
(* completion request sent with that userId: a save is issued under the    *)
(* userId of the request that the result on screen answers, also after a   *)
(* logout and a login under another identifier.                            *)
(***************************************************************************)
SavedUnderRequestUser ==
    \A c \in form'.saves \ form.saves :
        /\ form.answers # Null
        /\ calls'[c].userId = form.answers.userId

C25_SavedUnderRequestUser == [][SavedUnderRequestUser]_vars

(***************************************************************************)
(* C26  In the local backend a save whose read of the existing list failed *)
(* does not destroy history: when it settles, either it fails and the      *)
(* storage is unchanged, or the list of its user still holds every record  *)
(* it held before.                                                         *)
(***************************************************************************)
ReadFaultKeepsHistory ==
    \A c \in CallIds :
        (calls[c].pc = "awaiting" /\ calls[c].readFault /\ StepOf(c)) =>
            \/ calls'[c].pc = "rejected" /\ localStorage' = localStorage
            \/ RecordsOf(calls[c].userId) \subseteq RecordsOf(calls[c].userId)'

C26_ReadFaultKeepsHistory == [][ReadFaultKeepsHistory]_vars

(***************************************************************************)
(* C27  Whenever the dashboard is not loading and shows a history (its     *)
(* effect has run for the userId of the address), every record shown is a  *)
(* record of that userId: a late response for an earlier userId never      *)
(* replaces the history of the current one.                                *)
(***************************************************************************)
C27_HistoryOfCurrentUser ==
    (~dash.effect /\ DashboardView(dash).history) =>
        \A i \in 1..Len(dash.analyses) : dash.analyses[i].userId = dash.userId.v

(***************************************************************************)
(* C28  After the startup hydration the userId parameter of the address    *)
(* and the held identifier agree: the parameter is present and equal to    *)
(* the active identifier when the session is active, and absent when it is *)
(* anonymous; while active the identifier changes only by a logout.        *)
(***************************************************************************)
ActiveAgrees ==
    Active => /\ page.search # Null
              /\ searchParamsGet(page.search) = page.activeUserId

\* from a mounted active page a step keeps the identifier, or is the logout
\* (anonymous, parameter removed), or is the reload at the same address
IdentifierStable ==
    (page.mounted /\ Active) =>
        \/ page'.activeUserId = page.activeUserId
        \/ page'.mounted /\ page'.activeUserId = Null /\ page'.search = Null
        \/ ~page'.mounted /\ page'.search = page.search

\* as stated: the parameter is absent when the session is anonymous
UrlAgreesStrictly ==
    page.mounted => ActiveAgrees /\ (Anonymous => page.search = Null)

C28_UrlAgreesAbsent == []UrlAgreesStrictly /\ [][IdentifierStable]_vars

\* amended: when the session is anonymous the parameter is absent or empty
UrlAgrees ==
    page.mounted =>
        ActiveAgrees /\ (Anonymous => ~Truthy(searchParamsGet(page.search)))

C28_UrlAgrees == []UrlAgrees /\ [][IdentifierStable]_vars

\* the user logged in with " a +": the session is active with "a +" and the
\* address carries userId=a++%2B
C28_Witness ==
    /\ page.mounted
    /\ page.activeUserId = Chars(<<"a", " ", "+">>)
    /\ page.search = Chars(<<"a", "+", "%2B">>)
    /\ page.inputUserId = <<" ", "a", " ", "+">>

(***************************************************************************)
(* C29  In every reachable state of a form, a result on screen was         *)
(* computed from the inputs the form holds (its text and, for the image    *)
(* and dietary forms, its picture): every change of an input clears the    *)
(* result, also a picture whose file read ends while or after a completion *)
(* call started with the previous picture.                                 *)
(***************************************************************************)
ResultOfHeldInputs ==
    form.result # Null =>
        /\ form.answers.text = form.text
        /\ form.answers.photo = form.photo

InputChangeClears ==
    (form'.text # form.text \/ form'.photo # form.photo) => form'.result = Null

C29_ResultOfHeldInputs == []ResultOfHeldInputs /\ [][InputChangeClears]_vars

(***************************************************************************)
(* C30  The busy flag of a form is true exactly while a completion call is *)
(* in flight; every submit that passes validation is followed by a state   *)
(* where the form is not busy, once the call settles; and at the step that *)
(* settles the call exactly one of result and error is set.                *)
(***************************************************************************)
Busy == form.loading

BusyWhileInFlight == Busy <=> form.completions # <<>>

\* the completion call of the form settles (a reload abandons it instead)
CallSettles ==
    /\ page'.mounted
    /\ Len(form'.completions) < Len(form.completions)

SettlesWithOne ==
    CallSettles => /\ ~form'.loading
               /\ (form'.result # Null) # (form'.error # Null)

BusyEnds == Busy ~> ~Busy

C30_BusyUntilSettled ==
    /\ []BusyWhileInFlight
    /\ [][SettlesWithOne]_vars
    /\ BusyEnds

\* the parts of C30 apart from "exactly one of result and error"
SettlesNotBusy == CallSettles => ~form'.loading

C30_BusyParts == []BusyWhileInFlight /\ [][SettlesNotBusy]_vars /\ BusyEnds
====
